---- MODULE Spec2Model ----
(***************************************************************************)
(* The job-search page (JobSearch.tsx) together with the HTTP client       *)
(* (services/api.ts) and the react-query client configuration (App.tsx).   *)
(*                                                                         *)
(* The page keeps its search criteria in React state (filters, sortBy,     *)
(* currentPage, isSearching) and reads results through                     *)
(*   useQuery(['searchJobs', filters, sortBy, currentPage], fn,            *)
(*            {enabled: false, keepPreviousData: true})                    *)
(* under the client defaults {retry: 1}.  react-query (v3) keeps one query *)
(* per key in its cache; the page's observer watches the query of the key  *)
(* of the last committed render.  Every handler runs to completion on the  *)
(* UI event loop, so one action is one handler (or one promise             *)
(* continuation) followed by the render it causes.                         *)
(*                                                                         *)
(* Strings are sequences of one-character strings.                         *)
(*                                                                         *)
(* Left out: the removal of unobserved queries from the cache after        *)
(* cacheTime (5 minutes), and the pausing of a retry while the window is   *)
(* unfocused or offline.                                                   *)
(*                                                                         *)
(* Three specifications share the handlers:                                *)
(*   Spec          the mounted page, its searches, discovery and network;  *)
(*                 its filter change is the removal of a hashtag chip;     *)
(*   StoreSpec     the filter state and the URL: mount on a URL, the       *)
(*                 JobFilters controls, submits, history navigation;       *)
(*   UrlSearchSpec the page mounted on a URL and then searched.            *)
(***************************************************************************)
EXTENDS Integers, Sequences, FiniteSets, TLC

VARIABLES
  filters,              \* useState<SearchFilters>
  sortBy,               \* useState('relevance')
  currentPage,          \* useState(1)
  isSearching,          \* useState(false)
  mounted,              \* the page is rendered (route /search)
  url,                  \* location.search as URLSearchParams entries
  lastWrite,            \* history: did the latest setSearchParams change the URL
  queries,              \* react-query cache: query key -> query state
  previousQueryResult,  \* observer: result shown when the key last changed
  scrapeCalls,          \* POST /scrape-jobs calls in flight (their bodies)
  timers,               \* pending setTimeout(refetch, 2000) callbacks
  searches,             \* history: handleSearch invocations so far
  scrapes,              \* history: handleStartScraping invocations so far
  changes,              \* history: filter, sort and page changes so far
  lastId,               \* history: fetches started so far (request ids)
  overlap,              \* history: the latest fetch started while another ran
  acks,                 \* history: acknowledged scrape calls
  followUps,            \* history: follow-up refetch() calls made by timers
  pageTrail             \* history: pages of the latest consecutive page changes

vars == <<filters, sortBy, currentPage, isSearching, mounted, url, lastWrite, queries,
          previousQueryResult, scrapeCalls, timers, searches, scrapes,
          changes, lastId, overlap, acks, followUps, pageTrail>>

----------------------------------------------------------------------------
(* Bounds of the model *)

MaxSearches == 2
MaxScrapes == 1
MaxChanges == 2
MaxToggles == 4

(* Program constants *)

PageSize == 20
Retry == 1

(* Inputs *)

Queries == { <<"#", "a">>, <<"#", "b">> }
InitHashtags == { <<>>, << <<"a">> >> }
TimeFilters == { "24h", "7d" }
SortValues == { "relevance", "date_desc" }
Totals == { 3, 45 }
Reasons == { "NetworkError", "Timeout", "ServerError" }
WordChars == { "a", "b", "A", "B", "_", "1" }

(* Inputs of the filter store and the URL synchroniser *)

Texts == { <<"#", "A">>, <<"#", "a", " ", "#", "a">>,
           <<"#", "b", " ", "#", "a">>, <<"a">> }
Urls == { <<>>,
          << <<"hashtags", <<"a", ",", "b">> >> >>,
          << <<"hashtags", <<>> >> >>,
          << <<"hashtags", <<"a", ",", ",", "b">> >> >>,
          << <<"timeFilter", "7d">>, <<"hashtags", <<"a">> >> >>,
          << <<"timeFilter", "bogus">> >>,
          << <<"filter", "saved">> >>,
          << <<"jobType", "contract">>, <<"location", "Pune">> >>,
          << <<"jobType", "xyz">> >>,
          << <<"experienceLevel", "fresher">>, <<"timeFilter", "">> >> }
UrlQueries == { <<"#", "a", " ", "#", "b">>, <<"#", "a">>, <<"b">> }
HistoryUrls == { <<>>, << <<"timeFilter", "7d">>, <<"hashtags", <<"a">> >> >> }
JobTypes == { "", "contract" }
ExperienceLevels == { "", "fresher" }
Locations == { "", "Pune" }
Salaries == { 500000, 900000 }

(* JobFilters: the options of the selects and of the source checkboxes *)

timeFilterOptions == { "1h", "24h", "7d", "30d" }
jobTypeOptions == { "", "full_time", "part_time", "contract", "internship" }
experienceLevelOptions == { "", "fresher", "entry_level", "mid_level", "senior_level" }

----------------------------------------------------------------------------
(* handleSearch's hashtag parsing: searchQuery.match(/#\w+/g), then        *)
(* tag.replace('#', '') on each match                                      *)

RECURSIVE WordEnd(_, _)
WordEnd(s, i) ==
  IF i + 1 <= Len(s) /\ s[i + 1] \in WordChars THEN WordEnd(s, i + 1) ELSE i

RECURSIVE MatchHashtags(_, _)
MatchHashtags(s, i) ==
  IF i > Len(s) THEN <<>>
  ELSE IF s[i] = "#" /\ i + 1 <= Len(s) /\ s[i + 1] \in WordChars
       THEN LET j == WordEnd(s, i + 1)
            IN  <<SubSeq(s, i, j)>> \o MatchHashtags(s, j + 1)
       ELSE MatchHashtags(s, i + 1)

CleanedHashtags(searchQuery) ==
  LET hashtags == MatchHashtags(searchQuery, 1)
  IN  [k \in 1..Len(hashtags) |-> Tail(hashtags[k])]

(* Array.prototype.join(',') *)
RECURSIVE Join(_)
Join(list) ==
  IF Len(list) = 0 THEN <<>>
  ELSE IF Len(list) = 1 THEN list[1]
  ELSE list[1] \o <<",">> \o Join(Tail(list))

RemoveAt(list, i) == [k \in 1..(Len(list) - 1) |-> IF k < i THEN list[k] ELSE list[k + 1]]

(* String.prototype.split(',') : "" gives [""], "a,,b" gives ["a","","b"] *)
RECURSIVE Split(_)
Split(str) ==
  IF \A i \in 1..Len(str) : str[i] # ","
  THEN <<str>>
  ELSE LET i == CHOOSE k \in 1..Len(str) :
                  str[k] = "," /\ \A j \in 1..(k - 1) : str[j] # ","
       IN  <<SubSeq(str, 1, i - 1)>> \o Split(SubSeq(str, i + 1, Len(str)))

(* URLSearchParams: an ordered list of <<key, value>> entries.  has(key),  *)
(* get(key) (the first entry of the key) and set(key, value) on a list     *)
(* that has no entry of the key yet.                                       *)
Has(params, key) == \E i \in 1..Len(params) : params[i][1] = key

Get(params, key) ==
  LET i == CHOOSE k \in 1..Len(params) :
             params[k][1] = key /\ \A j \in 1..(k - 1) : params[j][1] # key
  IN  params[i][2]

Set(params, key, value) == Append(params, <<key, value>>)

Min(a, b) == IF a < b THEN a ELSE b
Max(a, b) == IF a > b THEN a ELSE b

----------------------------------------------------------------------------
(* The useState<SearchFilters> initialiser: the filters of the first       *)
(* render, read from the URL's query parameters.  `x || d` takes d when x  *)
(* is null or the empty string; an array is never replaced.  salaryMin and *)
(* salaryMax are null (here <<>>) or a number n (here <<n>>).              *)

AllSources == <<"linkedin", "naukri", "indeed", "twitter">>

(* mutant of OrElse: the value of the URL, with no default for a missing key *)
OrElseEmpty(params, key, default) ==
  IF Has(params, key) THEN Get(params, key) ELSE ""

OrElse(params, key, default) ==
  IF Has(params, key) /\ Get(params, key) # "" THEN Get(params, key) ELSE default

Initialize(searchParams) ==
  [hashtags |-> IF Has(searchParams, "hashtags")
                THEN Split(Get(searchParams, "hashtags")) ELSE <<>>,
   sources |-> AllSources,
   timeFilter |-> OrElse(searchParams, "timeFilter", "24h"),
   location |-> OrElse(searchParams, "location", ""),
   jobType |-> OrElse(searchParams, "jobType", ""),
   experienceLevel |-> OrElse(searchParams, "experienceLevel", ""),
   salaryMin |-> <<>>,
   salaryMax |-> <<>>,
   skills |-> <<>>,
   hasContacts |-> FALSE,
   remoteOnly |-> FALSE]

(* mutant of ToQueryString: the timeFilter key is never written *)
ToQueryStringNoTimeFilter(f) ==
  LET p1 == IF Len(f.hashtags) > 0 THEN Set(<<>>, "hashtags", Join(f.hashtags)) ELSE <<>>
      p3 == IF f.location # "" THEN Set(p1, "location", f.location) ELSE p1
      p4 == IF f.jobType # "" THEN Set(p3, "jobType", f.jobType) ELSE p3
  IN  IF f.experienceLevel # ""
      THEN Set(p4, "experienceLevel", f.experienceLevel) ELSE p4

(* mutant of ToQueryString: the timeFilter key is written for "24h" too *)
ToQueryStringTimeFilterAlways(f) ==
  LET p1 == IF Len(f.hashtags) > 0 THEN Set(<<>>, "hashtags", Join(f.hashtags)) ELSE <<>>
      p2 == Set(p1, "timeFilter", f.timeFilter)
      p3 == IF f.location # "" THEN Set(p2, "location", f.location) ELSE p2
      p4 == IF f.jobType # "" THEN Set(p3, "jobType", f.jobType) ELSE p3
  IN  IF f.experienceLevel # ""
      THEN Set(p4, "experienceLevel", f.experienceLevel) ELSE p4

(* The URL effect: the URLSearchParams built from the filters *)
ToQueryString(f) ==
  LET p1 == IF Len(f.hashtags) > 0 THEN Set(<<>>, "hashtags", Join(f.hashtags)) ELSE <<>>
      p2 == IF f.timeFilter # "24h" THEN Set(p1, "timeFilter", f.timeFilter) ELSE p1
      p3 == IF f.location # "" THEN Set(p2, "location", f.location) ELSE p2
      p4 == IF f.jobType # "" THEN Set(p3, "jobType", f.jobType) ELSE p3
      p5 == IF f.experienceLevel # ""
            THEN Set(p4, "experienceLevel", f.experienceLevel) ELSE p4
  IN  p5

(* mutant of SyncUrl: the keys the filters do not produce are kept *)
SyncUrlKeepingKeys(newFilters) ==
  LET params == ToQueryString(newFilters)
      kept == SelectSeq(url, LAMBDA e : ~Has(params, e[1]))
  IN  /\ url' = params \o kept
      /\ lastWrite' = IF params \o kept = url THEN "same" ELSE "changed"

(* The effect runs after every render that follows a setFilters call and   *)
(* calls setSearchParams(params), which replaces the whole query string.   *)
SyncUrl(newFilters) ==
  /\ url' = ToQueryString(newFilters)
  /\ lastWrite' = IF ToQueryString(newFilters) = url THEN "same" ELSE "changed"

----------------------------------------------------------------------------
(* apiService.searchJobs: the query string of GET /jobs *)

NoParams == [keys |-> <<>>, hashtags |-> <<>>, limit |-> 0, offset |-> 0]

(* mutant of SearchJobsParams: the offset is written from page 2 on only *)
SearchJobsParamsFromPageTwo(K) ==
  LET limit == PageSize
      k1 == IF Len(K.f.hashtags) > 0 THEN <<"hashtags">> ELSE <<>>
      k3 == IF K.p > 1 THEN <<"offset">> ELSE <<>>
  IN  [keys |-> k1 \o <<"limit">> \o k3,
       hashtags |-> IF Len(K.f.hashtags) > 0 THEN Join(K.f.hashtags) ELSE <<>>,
       limit |-> limit,
       offset |-> IF K.p > 1 THEN (K.p - 1) * limit ELSE 0]

(* mutant of SearchJobsParams: the offset is page * limit *)
SearchJobsParamsPageTimesLimit(K) ==
  LET limit == PageSize
      k1 == IF Len(K.f.hashtags) > 0 THEN <<"hashtags">> ELSE <<>>
  IN  [keys |-> k1 \o <<"limit", "offset">>,
       hashtags |-> IF Len(K.f.hashtags) > 0 THEN Join(K.f.hashtags) ELSE <<>>,
       limit |-> limit,
       offset |-> K.p * limit]

SearchJobsParams(K) ==
  LET limit == PageSize
      k1 == IF Len(K.f.hashtags) > 0 THEN <<"hashtags">> ELSE <<>>
      k2 == IF limit # 0 THEN <<"limit">> ELSE <<>>
      k3 == IF K.p # 0 THEN <<"offset">> ELSE <<>>
  IN  [keys |-> k1 \o k2 \o k3,
       hashtags |-> IF Len(K.f.hashtags) > 0 THEN Join(K.f.hashtags) ELSE <<>>,
       limit |-> limit,
       offset |-> IF K.p # 0 THEN (K.p - 1) * limit ELSE 0]

----------------------------------------------------------------------------
(* The query of the current render and what the observer shows for it *)

CurKey == [f |-> filters, s |-> sortBy, p |-> currentPage]

NoData == [req |-> 0, params |-> NoParams, total |-> 0, jobs |-> 0]

FreshQuery ==
  [data |-> NoData, status |-> "idle", error |-> "none", isFetching |-> FALSE,
   failureCount |-> 0, phase |-> "none", call |-> NoParams,
   cancelRetry |-> FALSE, fetchId |-> 0, attempts |-> 0, waiters |-> 0,
   joined |-> FALSE, timedOut |-> FALSE]

QueryOf(qs, K) == IF K \in DOMAIN qs THEN qs[K] ELSE FreshQuery

(* QueryObserver.createResult with keepPreviousData: true *)
CreateResult(qs, K, prev) ==
  LET st == QueryOf(qs, K)
  IN  IF st.data.req = 0 /\ prev.isSuccess /\ st.status # "error"
      THEN [data |-> prev.data, status |-> "success",
            isFetching |-> st.isFetching, isPreviousData |-> TRUE,
            req |-> prev.data.req]
      ELSE [data |-> st.data, status |-> st.status,
            isFetching |-> st.isFetching, isPreviousData |-> FALSE,
            req |-> IF st.status = "error" THEN st.fetchId ELSE st.data.req]

CurrentResult == CreateResult(queries, CurKey, previousQueryResult)

searchResults == CurrentResult.data
(* mutant of totalPages: Math.floor in place of Math.ceil *)
totalPagesFloor == searchResults.total \div PageSize

totalPages == (searchResults.total + PageSize - 1) \div PageSize
hasResults == searchResults.jobs > 0

(* The spec's QueryState, read off the observer's result *)
QueryState ==
  IF CurrentResult.isFetching THEN "Loading"
  ELSE IF CurrentResult.status = "error" THEN "Error"
  ELSE IF CurrentResult.status = "success" THEN "Success"
  ELSE "Idle"

Fetching(qs) == { K \in DOMAIN qs : qs[K].isFetching }

----------------------------------------------------------------------------
(* react-query: Query.fetch as reached from the observer's refetch().      *)
(* A query that is already fetching returns its pending promise (and lets  *)
(* a cancelled retry continue); otherwise a fetch starts: the query        *)
(* function is called once and the GET /jobs call is in flight.            *)

StartFetch(qs, K) ==
  LET st == QueryOf(qs, K)
  IN  [st EXCEPT !.status = IF st.data.req = 0 THEN "loading" ELSE st.status,
                 !.error = IF st.data.req = 0 THEN "none" ELSE st.error,
                 !.isFetching = TRUE,
                 !.failureCount = 0,
                 !.phase = "inflight",
                 !.call = SearchJobsParams(K),
                 !.cancelRetry = FALSE,
                 !.fetchId = lastId + 1,
                 !.attempts = 1,
                 !.waiters = 0,
                 !.joined = FALSE,
                 !.timedOut = FALSE]

(* mutant of Refetch: no deduplication, every refetch() starts a fetch *)
RefetchAlways(qs, K) ==
  [k \in DOMAIN qs \cup {K} |-> IF k = K THEN StartFetch(qs, K) ELSE qs[k]]

Refetch(qs, K) ==
  IF QueryOf(qs, K).isFetching
  THEN [qs EXCEPT ![K] = [@ EXCEPT !.cancelRetry = FALSE, !.joined = TRUE]]
  ELSE [k \in DOMAIN qs \cup {K} |-> IF k = K THEN StartFetch(qs, K) ELSE qs[k]]

(* `await refetch()` in handleSearch: the handler waits for the promise *)
AwaitRefetch(qs, K) == [qs EXCEPT ![K].waiters = @ + 1]

(* The render after a handler: the observer moves to the query of the new  *)
(* key.  Query.removeObserver on the old query: axios promises cannot be   *)
(* cancelled, so a running fetch goes on but will not be retried.          *)
RemoveObserver(qs, K, newKey) ==
  IF newKey # K /\ K \in DOMAIN qs /\ qs[K].isFetching
  THEN [qs EXCEPT ![K].cancelRetry = TRUE]
  ELSE qs

(* QueryObserver.updateQuery: previousQueryResult = currentResult *)
UpdateQuery(qs, K, newKey) ==
  IF newKey = K THEN previousQueryResult
  ELSE LET r == CreateResult(qs, K, previousQueryResult)
       IN  IF r.status = "success"
           THEN [isSuccess |-> TRUE, data |-> r.data]
           ELSE [isSuccess |-> FALSE, data |-> NoData]

Commit(qs, newFilters, newSortBy, newPage) ==
  LET K == CurKey
      newKey == [f |-> newFilters, s |-> newSortBy, p |-> newPage]
  IN  /\ filters' = newFilters
      /\ sortBy' = newSortBy
      /\ currentPage' = newPage
      /\ queries' = RemoveObserver(qs, K, newKey)
      /\ previousQueryResult' = UpdateQuery(qs, K, newKey)

IssuedBy(qs, K) == IF qs[K].fetchId > lastId THEN qs[K].fetchId ELSE lastId

Issue(qs, K) ==
  /\ lastId' = IssuedBy(qs, K)
  /\ overlap' = IF qs[K].fetchId > lastId THEN Fetching(queries) # {} ELSE overlap

----------------------------------------------------------------------------
(* The page's handlers *)

HandleSearch(searchQuery) ==
  /\ searches < MaxSearches
  /\ LET K == CurKey
         qs == AwaitRefetch(Refetch(queries, K), K)
     IN  /\ Commit(qs, [filters EXCEPT !.hashtags = CleanedHashtags(searchQuery)],
                   sortBy, 1)
         /\ Issue(qs, K)
  /\ isSearching' = TRUE
  /\ SyncUrl([filters EXCEPT !.hashtags = CleanedHashtags(searchQuery)])
  /\ searches' = searches + 1
  /\ pageTrail' = <<>>
  /\ UNCHANGED <<mounted, scrapeCalls, timers, scrapes, changes, acks, followUps>>

Merge(prev, newFilters) ==
  [k \in DOMAIN prev |-> IF k \in DOMAIN newFilters THEN newFilters[k] ELSE prev[k]]

(* handleFilterChange, taken while fewer than `budget` changes were made *)
HandleFilterChangeWithin(newFilters, budget) ==
  /\ changes < budget
  /\ changes' = changes + 1
  /\ Commit(queries, Merge(filters, newFilters), sortBy, 1)
  /\ SyncUrl(Merge(filters, newFilters))
  /\ pageTrail' = <<>>
  /\ UNCHANGED <<mounted, isSearching, scrapeCalls, timers, searches,
                 scrapes, lastId, overlap, acks, followUps>>

HandleFilterChange(newFilters) == HandleFilterChangeWithin(newFilters, MaxChanges)

(* the x button of a hashtag chip *)
RemoveHashtag(index) ==
  /\ index \in 1..Len(filters.hashtags)
  /\ HandleFilterChange([hashtags |-> RemoveAt(filters.hashtags, index)])

(* JobFilters: the Posted select *)
SelectTimeFilter(value) ==
  /\ value # filters.timeFilter
  /\ HandleFilterChange([filters EXCEPT !.timeFilter = value])

(* JobFilters: the Job Type and Experience selects, the Location input,    *)
(* the source checkboxes and the two flags; each passes                    *)
(* {...filters, field: value} to handleFilterChange                        *)
SelectJobType(value) ==
  /\ value # filters.jobType
  /\ HandleFilterChange([filters EXCEPT !.jobType = value])

SelectExperienceLevel(value) ==
  /\ value # filters.experienceLevel
  /\ HandleFilterChange([filters EXCEPT !.experienceLevel = value])

SetLocation(value) ==
  /\ value # filters.location
  /\ HandleFilterChange([filters EXCEPT !.location = value])

Includes(list, x) == \E i \in 1..Len(list) : list[i] = x

ToggleSource(source) ==
  LET newSources == IF ~Includes(filters.sources, source)
                    THEN Append(filters.sources, source)
                    ELSE SelectSeq(filters.sources, LAMBDA x : x # source)
  IN  HandleFilterChangeWithin([filters EXCEPT !.sources = newSources], MaxToggles)

SetHasContacts(checked) ==
  /\ checked # filters.hasContacts
  /\ HandleFilterChange([filters EXCEPT !.hasContacts = checked])

SetRemoteOnly(checked) ==
  /\ checked # filters.remoteOnly
  /\ HandleFilterChange([filters EXCEPT !.remoteOnly = checked])

(* handleFilterChange called with a salary patch *)
SetSalaryRange(min, max) ==
  HandleFilterChange([salaryMin |-> <<min>>, salaryMax |-> <<max>>])

(* mutant of SetSortBy: the new sort order is fetched at once *)
SetSortByRefetching(value) ==
  /\ changes < MaxChanges
  /\ changes' = changes + 1
  /\ hasResults
  /\ value # sortBy
  /\ LET newKey == [f |-> filters, s |-> value, p |-> currentPage]
         qs == Refetch(queries, newKey)
     IN  /\ Commit(qs, filters, value, currentPage)
         /\ Issue(qs, newKey)
  /\ pageTrail' = <<>>
  /\ UNCHANGED <<mounted, url, lastWrite, isSearching, scrapeCalls, timers, searches,
                 scrapes, acks, followUps>>

SetSortBy(value) ==
  /\ changes < MaxChanges
  /\ changes' = changes + 1
  /\ hasResults
  /\ value # sortBy
  /\ Commit(queries, filters, value, currentPage)
  /\ pageTrail' = <<>>
  /\ UNCHANGED <<mounted, url, lastWrite, isSearching, scrapeCalls, timers, searches,
                 scrapes, lastId, overlap, acks, followUps>>

SetCurrentPage(page) ==
  /\ changes < MaxChanges
  /\ changes' = changes + 1
  /\ hasResults
  /\ totalPages > 1
  /\ page \in 1..totalPages
  /\ page # currentPage
  /\ Commit(queries, filters, sortBy, page)
  /\ pageTrail' = IF Len(pageTrail) < 2 THEN Append(pageTrail, page)
                  ELSE <<pageTrail[2], page>>
  /\ UNCHANGED <<mounted, url, lastWrite, isSearching, scrapeCalls, timers, searches,
                 scrapes, lastId, overlap, acks, followUps>>

(* mutant of HandleStartScraping: the button is not disabled without hashtags *)
HandleStartScrapingAnyHashtags ==
  /\ ~isSearching
  /\ scrapes < MaxScrapes
  /\ isSearching' = TRUE
  /\ scrapeCalls' = Append(scrapeCalls,
                           [hashtags |-> filters.hashtags,
                            sources |-> filters.sources,
                            timeFilter |-> filters.timeFilter])
  /\ scrapes' = scrapes + 1
  /\ pageTrail' = <<>>
  /\ UNCHANGED <<mounted, url, lastWrite, filters, sortBy, currentPage, queries,
                 previousQueryResult, timers, searches, changes, lastId, overlap,
                 acks, followUps>>

HandleStartScraping ==
  /\ ~isSearching
  /\ Len(filters.hashtags) > 0
  /\ scrapes < MaxScrapes
  /\ isSearching' = TRUE
  /\ scrapeCalls' = Append(scrapeCalls,
                           [hashtags |-> filters.hashtags,
                            sources |-> filters.sources,
                            timeFilter |-> filters.timeFilter])
  /\ scrapes' = scrapes + 1
  /\ pageTrail' = <<>>
  /\ UNCHANGED <<mounted, url, lastWrite, filters, sortBy, currentPage, queries, previousQueryResult,
                 timers, searches, changes, lastId, overlap, acks, followUps>>

(* mutant of ScrapeAck: no finally block *)
ScrapeAckKeepsSearching(i) ==
  /\ i \in 1..Len(scrapeCalls)
  /\ scrapeCalls' = RemoveAt(scrapeCalls, i)
  /\ timers' = timers + 1
  /\ acks' = acks + 1
  /\ UNCHANGED <<mounted, url, lastWrite, filters, sortBy, currentPage, isSearching,
                 queries, previousQueryResult, searches, scrapes, changes, lastId,
                 overlap, followUps, pageTrail>>

(* POST /scrape-jobs answered 2xx: setTimeout(..., 2000), then finally *)
ScrapeAck(i) ==
  /\ i \in 1..Len(scrapeCalls)
  /\ scrapeCalls' = RemoveAt(scrapeCalls, i)
  /\ timers' = timers + 1
  /\ acks' = acks + 1
  /\ isSearching' = FALSE
  /\ UNCHANGED <<mounted, url, lastWrite, filters, sortBy, currentPage, queries, previousQueryResult,
                 searches, scrapes, changes, lastId, overlap, followUps, pageTrail>>

(* mutant of ScrapeFail: the follow-up is scheduled in the finally block *)
ScrapeFailSchedules(i) ==
  /\ i \in 1..Len(scrapeCalls)
  /\ scrapeCalls' = RemoveAt(scrapeCalls, i)
  /\ timers' = timers + 1
  /\ isSearching' = FALSE
  /\ UNCHANGED <<mounted, url, lastWrite, filters, sortBy, currentPage, queries, previousQueryResult,
                 searches, scrapes, changes, lastId, overlap, acks, followUps,
                 pageTrail>>

(* mutant of ScrapeFail: the failure refreshes the results at once *)
ScrapeFailRefetches(i) ==
  /\ i \in 1..Len(scrapeCalls)
  /\ scrapeCalls' = RemoveAt(scrapeCalls, i)
  /\ isSearching' = FALSE
  /\ LET qs == Refetch(queries, CurKey)
     IN  /\ queries' = qs
         /\ Issue(qs, CurKey)
  /\ UNCHANGED <<mounted, url, lastWrite, filters, sortBy, currentPage,
                 previousQueryResult, timers, searches, scrapes, changes, acks,
                 followUps, pageTrail>>

(* POST /scrape-jobs failed or timed out: catch, then finally *)
ScrapeFail(i) ==
  /\ i \in 1..Len(scrapeCalls)
  /\ scrapeCalls' = RemoveAt(scrapeCalls, i)
  /\ isSearching' = FALSE
  /\ UNCHANGED <<mounted, url, lastWrite, filters, sortBy, currentPage, queries, previousQueryResult,
                 timers, searches, scrapes, changes, lastId, overlap, acks, followUps,
                 pageTrail>>

(* the setTimeout callback of handleStartScraping: refetch() *)
TimerFire ==
  /\ timers > 0
  /\ timers' = timers - 1
  /\ followUps' = followUps + 1
  /\ LET qs == Refetch(queries, CurKey)
     IN  /\ queries' = qs
         /\ Issue(qs, CurKey)
  /\ UNCHANGED <<mounted, url, lastWrite, filters, sortBy, currentPage, isSearching, previousQueryResult,
                 scrapeCalls, searches, scrapes, changes, acks, pageTrail>>

----------------------------------------------------------------------------
(* The network and react-query's retryer *)

JobsOnPage(params, total) == Max(0, Min(params.limit, total - params.offset))

(* The promise settles: every handleSearch waiting on it runs its finally.  *)
(* The bookkeeping of the finished fetch (failureCount, the retryer) is not *)
(* read again before the next fetch resets it, and is cleared here.         *)
Release(K) ==
  isSearching' = IF queries[K].waiters > 0 THEN FALSE ELSE isSearching

Resolve(st, total) ==
  [st EXCEPT !.data = [req |-> st.fetchId, params |-> st.call, total |-> total,
                       jobs |-> JobsOnPage(st.call, total)],
             !.status = "success", !.error = "none", !.isFetching = FALSE,
             !.failureCount = 0, !.phase = "none", !.call = NoParams,
             !.cancelRetry = FALSE, !.attempts = 0, !.waiters = 0,
             !.joined = FALSE, !.timedOut = FALSE]

(* mutant of Reject: the failure is recorded but the query stays fetching *)
RejectStaysFetching(st, reason) ==
  [st EXCEPT !.status = "error", !.error = reason, !.phase = "none",
             !.call = NoParams, !.waiters = 0]

Reject(st, reason) ==
  [st EXCEPT !.status = "error", !.error = reason, !.isFetching = FALSE,
             !.failureCount = 0, !.phase = "none", !.call = NoParams,
             !.cancelRetry = FALSE, !.attempts = 0, !.waiters = 0,
             !.joined = FALSE, !.timedOut = FALSE]

(* mutant of ShouldRetry: react-query's default of three retries *)
ShouldRetryDefault(st) == ~st.cancelRetry /\ st.failureCount < 3

ShouldRetry(st) == ~st.cancelRetry /\ st.failureCount < Retry

(* mutant of RespondOk: the response is applied to the query of the      *)
(* current render instead of the query the request was made for          *)
RespondOkToCurrentKey(K, total) ==
  /\ K \in DOMAIN queries
  /\ queries[K].phase = "inflight"
  /\ LET done == Resolve(queries[K], total)
         kept == [done EXCEPT !.data = queries[K].data,
                              !.status = IF queries[K].data.req = 0 THEN "idle"
                                         ELSE queries[K].status]
     IN  queries' = [k \in DOMAIN queries \cup {CurKey} |->
                       IF k = CurKey /\ k = K THEN done
                       ELSE IF k = CurKey
                            THEN [QueryOf(queries, k) EXCEPT !.data = done.data]
                       ELSE IF k = K THEN kept
                       ELSE queries[k]]
  /\ Release(K)
  /\ UNCHANGED <<mounted, url, lastWrite, filters, sortBy, currentPage, previousQueryResult, scrapeCalls,
                 timers, searches, scrapes, changes, lastId, overlap, acks,
                 followUps, pageTrail>>

(* GET /jobs answered 2xx with {jobs, total} *)
RespondOk(K, total) ==
  /\ K \in DOMAIN queries
  /\ queries[K].phase = "inflight"
  /\ queries' = [queries EXCEPT ![K] = Resolve(@, total)]
  /\ Release(K)
  /\ UNCHANGED <<mounted, url, lastWrite, filters, sortBy, currentPage, previousQueryResult, scrapeCalls,
                 timers, searches, scrapes, changes, lastId, overlap, acks, followUps,
                 pageTrail>>

(* GET /jobs failed: no response, the 30000 ms timeout, or a non-2xx status *)
RespondFail(K, reason) ==
  /\ K \in DOMAIN queries
  /\ queries[K].phase = "inflight"
  /\ LET st == [queries[K] EXCEPT !.timedOut = @ \/ reason = "Timeout"]
     IN  IF ShouldRetry(st)
         THEN /\ queries' = [queries EXCEPT ![K] =
                   [st EXCEPT !.failureCount = @ + 1, !.phase = "retryWait",
                              !.error = reason, !.call = NoParams]]
              /\ UNCHANGED isSearching
         ELSE /\ queries' = [queries EXCEPT ![K] = Reject(st, reason)]
              /\ Release(K)
  /\ UNCHANGED <<mounted, url, lastWrite, filters, sortBy, currentPage, previousQueryResult, scrapeCalls,
                 timers, searches, scrapes, changes, lastId, overlap, acks, followUps,
                 pageTrail>>

(* the retry delay has passed: run() again unless the retry was cancelled *)
RetryFire(K) ==
  /\ K \in DOMAIN queries
  /\ queries[K].phase = "retryWait"
  /\ IF queries[K].cancelRetry
     THEN /\ queries' = [queries EXCEPT ![K] =
               Reject(@, @.error)]
          /\ Release(K)
     ELSE /\ queries' = [queries EXCEPT ![K] =
               [@ EXCEPT !.phase = "inflight", !.call = SearchJobsParams(K),
                         !.attempts = @ + 1]]
          /\ UNCHANGED isSearching
  /\ UNCHANGED <<mounted, url, lastWrite, filters, sortBy, currentPage, previousQueryResult, scrapeCalls,
                 timers, searches, scrapes, changes, lastId, overlap, acks, followUps,
                 pageTrail>>

----------------------------------------------------------------------------
(* The initial render: filters from the URL's query parameters *)

InitUrls == { IF Len(h) = 0 THEN <<>> ELSE Set(<<>>, "hashtags", Join(h)) : h \in InitHashtags }

Init ==
  /\ mounted = TRUE
  /\ filters \in { Initialize(searchParams) : searchParams \in InitUrls }
  /\ url = ToQueryString(filters)
  /\ lastWrite = "same"
  /\ sortBy = "relevance"
  /\ currentPage = 1
  /\ isSearching = FALSE
  /\ queries = <<>>
  /\ previousQueryResult = [isSuccess |-> FALSE, data |-> NoData]
  /\ scrapeCalls = <<>>
  /\ timers = 0
  /\ searches = 0
  /\ scrapes = 0
  /\ changes = 0
  /\ lastId = 0
  /\ overlap = FALSE
  /\ acks = 0
  /\ followUps = 0
  /\ pageTrail = <<>>

Next ==
  \/ \E searchQuery \in Queries : HandleSearch(searchQuery)
  \/ \E index \in 1..2 : RemoveHashtag(index)
  \/ \E value \in SortValues : SetSortBy(value)
  \/ \E page \in 1..3 : SetCurrentPage(page)
  \/ HandleStartScraping
  \/ \E i \in 1..MaxScrapes : ScrapeAck(i)
  \/ \E i \in 1..MaxScrapes : ScrapeFail(i)
  \/ TimerFire
  \/ \E K \in DOMAIN queries, total \in Totals : RespondOk(K, total)
  \/ \E K \in DOMAIN queries, reason \in Reasons : RespondFail(K, reason)
  \/ \E K \in DOMAIN queries : RetryFire(K)

Spec == Init /\ [][Next]_vars

----------------------------------------------------------------------------
(* The filter store and the URL synchroniser on their own: the page is     *)
(* mounted on a URL, the user edits the filters, submits searches and      *)
(* navigates back and forward.  No GET /jobs call is answered here.        *)

(* The first render and its effect *)
Mount ==
  /\ ~mounted
  /\ mounted' = TRUE
  /\ filters' = Initialize(url)
  /\ SyncUrl(Initialize(url))
  /\ UNCHANGED <<sortBy, currentPage, isSearching, queries, previousQueryResult,
                 scrapeCalls, timers, searches, scrapes, changes, lastId, overlap,
                 acks, followUps, pageTrail>>

(* Back or forward to a history entry of the page with another query       *)
(* string.  The filters are state of the mounted component and are not     *)
(* read from the URL again.  Whether the URL effect runs again depends on  *)
(* the react-router-dom release installed (setSearchParams is a new        *)
(* function after a navigation from 6.4 on): if it does, it writes the     *)
(* query string of the filters over the one navigated to.                  *)
Navigate(searchParams) ==
  /\ mounted
  /\ searchParams # url
  /\ \/ /\ url' = searchParams
        /\ UNCHANGED lastWrite
     \/ SyncUrl(filters)
  /\ UNCHANGED <<mounted, filters, sortBy, currentPage, isSearching, queries,
                 previousQueryResult, scrapeCalls, timers, searches, scrapes,
                 changes, lastId, overlap, acks, followUps, pageTrail>>

StoreInit ==
  /\ mounted = FALSE
  /\ url \in Urls
  /\ lastWrite = "none"
  /\ filters = Initialize(<<>>)
  /\ sortBy = "relevance"
  /\ currentPage = 1
  /\ isSearching = FALSE
  /\ queries = <<>>
  /\ previousQueryResult = [isSuccess |-> FALSE, data |-> NoData]
  /\ scrapeCalls = <<>>
  /\ timers = 0
  /\ searches = 0
  /\ scrapes = 0
  /\ changes = 0
  /\ lastId = 0
  /\ overlap = FALSE
  /\ acks = 0
  /\ followUps = 0
  /\ pageTrail = <<>>

StoreNext ==
  \/ Mount
  \/ \E searchParams \in HistoryUrls : Navigate(searchParams)
  \/ mounted /\ \E searchQuery \in Texts : HandleSearch(searchQuery)
  \/ mounted /\ \E index \in 1..3 : RemoveHashtag(index)
  \/ mounted /\ \E value \in TimeFilters : SelectTimeFilter(value)
  \/ mounted /\ \E value \in JobTypes : SelectJobType(value)
  \/ mounted /\ \E value \in ExperienceLevels : SelectExperienceLevel(value)
  \/ mounted /\ \E value \in Locations : SetLocation(value)
  \/ mounted /\ changes < MaxChanges
             /\ \E source \in {"linkedin", "twitter"} : ToggleSource(source)
  \/ mounted /\ \E checked \in BOOLEAN : SetHasContacts(checked)
  \/ mounted /\ \E checked \in BOOLEAN : SetRemoteOnly(checked)
  \/ mounted /\ \E min \in Salaries : \E max \in Salaries \ {min} :
                    SetSalaryRange(min, max)

StoreSpec == StoreInit /\ [][StoreNext]_vars

(* The source checkboxes on their own *)
SourcesNext ==
  \/ Mount
  \/ mounted /\ \E source \in {"linkedin", "naukri", "indeed", "twitter"} :
                  ToggleSource(source)

SourcesSpec == StoreInit /\ [][SourcesNext]_vars

(* The page mounted on a URL and then searched: submits, discovery and     *)
(* the network, without further filter edits.                              *)
UrlSearchNext ==
  \/ Mount
  \/ mounted /\ \E searchQuery \in UrlQueries : HandleSearch(searchQuery)
  \/ mounted /\ HandleStartScraping
  \/ \E i \in 1..MaxScrapes : ScrapeAck(i)
  \/ \E i \in 1..MaxScrapes : ScrapeFail(i)
  \/ TimerFire
  \/ \E K \in DOMAIN queries, total \in Totals : RespondOk(K, total)
  \/ \E K \in DOMAIN queries, reason \in Reasons : RespondFail(K, reason)
  \/ \E K \in DOMAIN queries : RetryFire(K)

UrlSearchSpec == StoreInit /\ [][UrlSearchNext]_vars

(* The network answers every call or the client's 30000 ms timeout fails   *)
(* it, the retry delay and the 2000 ms timer run out, and the event loop   *)
(* then runs the continuation.                                             *)
NetworkStep ==
  \/ \E K \in DOMAIN queries, total \in Totals : RespondOk(K, total)
  \/ \E K \in DOMAIN queries, reason \in Reasons : RespondFail(K, reason)
  \/ \E K \in DOMAIN queries : RetryFire(K)

ScrapeStep == \E i \in 1..MaxScrapes : ScrapeAck(i) \/ ScrapeFail(i)

FairSpec ==
  Spec /\ WF_vars(NetworkStep) /\ WF_vars(ScrapeStep) /\ WF_vars(TimerFire)

----------------------------------------------------------------------------
(* Vocabulary of the properties *)

AllSettled == Fetching(queries) = {}

(* a search() is submitted: handleSearch, or the follow-up of a discovery *)
SubmitStep == (\E searchQuery \in Queries : HandleSearch(searchQuery)) \/ TimerFire

FilterChangeStep == \E index \in 1..2 : RemoveHashtag(index)

(* the display is the outcome of a request made for the current key *)
ShownIsForCurrentKey ==
  /\ ~CurrentResult.isPreviousData
  /\ CurrentResult.status \in {"success", "error"}
  /\ CurrentResult.status = "success" =>
       searchResults.params = SearchJobsParams(CurKey)

FetchingId(id) == \E K \in DOMAIN queries : queries[K].isFetching /\ queries[K].fetchId = id

----------------------------------------------------------------------------
(* C1: of two overlapping search requests 1 then 2, once both have settled *)
(* the QueryState shown reflects the response of request 2, whatever the   *)
(* order of the responses.                                                 *)
C1_LatestResponseShown ==
  (lastId = 2 /\ overlap /\ AllSettled) => CurrentResult.req = 2

(* C2: a page change and a sort change each issue a new search request     *)
(* carrying the current filters with the new page or sort value.           *)
C2_PageAndSortReissue ==
  [][ ((\E page \in 1..3 : SetCurrentPage(page)) \/ (\E value \in SortValues : SetSortBy(value)))
      => /\ lastId' = lastId + 1
         /\ QueryOf(queries', CurKey').isFetching
         /\ QueryOf(queries', CurKey').call = SearchJobsParams(CurKey') ]_vars

(* C3: after changePage(3) followed by changePage(1), once everything has  *)
(* settled the display is the result of the request for page 1.            *)
C3_PageOneShown ==
  (pageTrail = <<3, 1>> /\ AllSettled) => ShownIsForCurrentKey

C5_SubmitLoads ==
  [][ /\ QueryState' # QueryState => (SubmitStep \/ NetworkStep)
      /\ (SubmitStep /\ QueryState # "Loading") =>
           (QueryState' = "Loading" /\ lastId' = lastId + 1) ]_vars

C7_OneFollowUp ==
  /\ [](followUps + timers = acks)
  /\ \A n \in 1..MaxScrapes : (acks >= n) ~> (followUps >= n)

C7_Witness == acks = 1 /\ followUps = 1 /\ timers = 0

C10_Snapshot ==
  /\ [](\A K \in DOMAIN queries :
          /\ queries[K].phase = "inflight" => queries[K].call = SearchJobsParams(K)
          /\ queries[K].data.req # 0 => queries[K].data.params = SearchJobsParams(K))
  /\ [][ FilterChangeStep =>
           \A K \in DOMAIN queries :
             /\ K \in DOMAIN queries'
             /\ queries'[K].call = queries[K].call
             /\ queries'[K].fetchId = queries[K].fetchId
             /\ queries'[K].data = queries[K].data ]_vars

C10_Witness ==
  \E K \in DOMAIN queries :
    /\ queries[K].phase = "inflight"
    /\ Len(K.f.hashtags) > Len(filters.hashtags)

----------------------------------------------------------------------------
(* C11: the hashtags handleSearch extracts from a free text are            *)
(* lower-cased and free of duplicates (with the '#' stripped, in           *)
(* first-seen order).                                                      *)
C11_LowerCasedDistinct ==
  [][ \A searchQuery \in Texts :
        HandleSearch(searchQuery) =>
          LET out == filters'.hashtags
          IN  /\ \A i \in 1..Len(out) : \A k \in 1..Len(out[i]) :
                   out[i][k] \notin {"A", "B", "#"}
              /\ \A i, j \in 1..Len(out) : i # j => out[i] # out[j] ]_vars

(* C12: after a navigation to another query string (back or forward) the   *)
(* filters are the values parsed from that query string over the defaults. *)
C12_NavigationRehydrates ==
  [][ \A searchParams \in HistoryUrls :
        Navigate(searchParams) => filters' = Initialize(searchParams) ]_vars

(* C13: the URL is written only when the query string derived from the     *)
(* filters differs from the current one: no write leaves it as it was.     *)
C13_WritesOnlyOnChange == lastWrite # "same"

(* C14: parsing the query string written for the filters, over the         *)
(* defaults, gives back the filters on hashtags, timeFilter, location,     *)
(* jobType and experienceLevel.                                            *)
C14_RoundTrip ==
  mounted =>
    LET parsed == Initialize(ToQueryString(filters))
    IN  /\ parsed.hashtags = filters.hashtags
        /\ parsed.timeFilter = filters.timeFilter
        /\ parsed.location = filters.location
        /\ parsed.jobType = filters.jobType
        /\ parsed.experienceLevel = filters.experienceLevel

C14_Witness ==
  /\ mounted
  /\ Len(filters.hashtags) = 3
  /\ filters.timeFilter = "7d"
  /\ filters.jobType = "contract"

(* C15: after the initialisation from any URL, timeFilter is one of the    *)
(* four options, jobType and experienceLevel are empty or one of their     *)
(* options, and no hashtag is the empty token.                             *)
C15_MalformedDropped ==
  mounted =>
    /\ filters.timeFilter \in timeFilterOptions
    /\ filters.jobType \in jobTypeOptions
    /\ filters.experienceLevel \in experienceLevelOptions
    /\ \A i \in 1..Len(filters.hashtags) : filters.hashtags[i] # <<>>

(* C16: the query string written for the filters has the key hashtags      *)
(* exactly when there are hashtags (their comma-joined list), timeFilter   *)
(* exactly when it is not "24h", location, jobType and experienceLevel     *)
(* exactly when non-empty, each once, and no other key; a filter change    *)
(* writes exactly that query string.                                       *)
C16_MinimalKeys ==
  /\ [](mounted =>
        LET qs == ToQueryString(filters)
            Count(key) == Cardinality({ i \in 1..Len(qs) : qs[i][1] = key })
        IN  /\ Count("hashtags") = IF Len(filters.hashtags) > 0 THEN 1 ELSE 0
            /\ Count("timeFilter") = IF filters.timeFilter # "24h" THEN 1 ELSE 0
            /\ Count("location") = IF filters.location # "" THEN 1 ELSE 0
            /\ Count("jobType") = IF filters.jobType # "" THEN 1 ELSE 0
            /\ Count("experienceLevel") = IF filters.experienceLevel # "" THEN 1 ELSE 0
            /\ \A i \in 1..Len(qs) :
                 /\ qs[i][1] \in {"hashtags", "timeFilter", "location", "jobType",
                                  "experienceLevel"}
                 /\ qs[i][2] = IF qs[i][1] = "hashtags" THEN Join(filters.hashtags)
                               ELSE filters[qs[i][1]])
  /\ [][ filters' # filters => url' = ToQueryString(filters') ]_vars

C16_Witness ==
  /\ mounted
  /\ filters.remoteOnly
  /\ filters.sources # AllSources
  /\ filters.timeFilter = "24h"
  /\ url = << <<"hashtags", <<"a", ",", "b">> >> >>
  /\ lastWrite = "same"

(* C17: the filters of the first render ignore the keys of the URL other   *)
(* than the five known ones, and every field whose key is missing has its  *)
(* default.                                                                *)
C17_InitializeDefaults ==
  [][ Mount =>
        LET known == SelectSeq(url, LAMBDA e : e[1] \in {"hashtags", "timeFilter",
                                 "location", "jobType", "experienceLevel"})
        IN  /\ filters' = Initialize(known)
            /\ filters'.sources = <<"linkedin", "naukri", "indeed", "twitter">>
            /\ filters'.hasContacts = FALSE /\ filters'.remoteOnly = FALSE
            /\ filters'.salaryMin = <<>> /\ filters'.salaryMax = <<>>
            /\ filters'.skills = <<>>
            /\ ~Has(url, "hashtags") => filters'.hashtags = <<>>
            /\ ~Has(url, "timeFilter") => filters'.timeFilter = "24h"
            /\ ~Has(url, "location") => filters'.location = ""
            /\ ~Has(url, "jobType") => filters'.jobType = ""
            /\ ~Has(url, "experienceLevel") => filters'.experienceLevel = "" ]_vars

C17_Witness ==
  /\ mounted
  /\ searches = 0 /\ changes = 0
  /\ lastWrite = "changed"
  /\ url = <<>>
  /\ filters = Initialize(<<>>)

C20_LimitAndOffset ==
  \A K \in DOMAIN queries :
    queries[K].phase = "inflight" =>
      LET call == queries[K].call
      IN  /\ K.p >= 1
          /\ call.limit = 20
          /\ call.offset = (K.p - 1) * call.limit
          /\ \E i \in 1..Len(call.keys) : call.keys[i] = "limit"
          /\ \E i \in 1..Len(call.keys) : call.keys[i] = "offset"
          /\ \A i \in 1..Len(call.keys) :
               call.keys[i] \in {"hashtags", "q", "limit", "offset"}

C20_Witness ==
  \E K \in DOMAIN queries :
    queries[K].phase = "inflight" /\ K.p = 3 /\ queries[K].call.offset = 40

(* C21: after any sequence of source checkbox toggles, filters.sources has *)
(* no duplicates, holds only the four sources, and is not empty.           *)
C21_SourcesNeverEmpty ==
  mounted =>
    /\ \A i, j \in 1..Len(filters.sources) :
         i # j => filters.sources[i] # filters.sources[j]
    /\ \A i \in 1..Len(filters.sources) :
         filters.sources[i] \in {"linkedin", "naukri", "indeed", "twitter"}
    /\ Len(filters.sources) > 0

(* C22: totalPages is the ceiling of total / 20, total being that of the   *)
(* shown search result and 0 when there is none (total = 3 gives 1), and   *)
(* the page can be changed only when totalPages > 1.                       *)
C22_TotalPages ==
  /\ [](LET total == searchResults.total
        IN  /\ searchResults = NoData => (total = 0 /\ totalPages = 0)
            /\ totalPages * 20 >= total
            /\ (totalPages - 1) * 20 < total
            /\ total = 3 => totalPages = 1)
  /\ [][ \A page \in 1..3 : SetCurrentPage(page) => totalPages > 1 ]_vars

C22_Witness ==
  /\ QueryState = "Success"
  /\ searchResults.total = 3
  /\ searchResults.jobs = 3
  /\ totalPages = 1

(* C23: the GET /jobs request a handleSearch(query) call issues carries    *)
(* the hashtags extracted from that query.                                 *)
C23_RequestCarriesNewHashtags ==
  [][ \A searchQuery \in Queries :
        (HandleSearch(searchQuery) /\ lastId' # lastId) =>
          \E K \in DOMAIN queries' :
            /\ queries'[K].fetchId = lastId'
            /\ queries'[K].call.hashtags = Join(CleanedHashtags(searchQuery)) ]_vars

(* C24: isSearching is true in every state in which a POST /scrape-jobs    *)
(* call is in flight, and at most one such call is in flight.              *)
C24_ScrapeHoldsIsSearching ==
  /\ Len(scrapeCalls) <= 1
  /\ Len(scrapeCalls) > 0 => isSearching

(* C25: once a filter-change action (a JobFilters control, a chip removal  *)
(* or a submit) is done, the URL's query string is the one written for the *)
(* filters: it keeps no key of the earlier URL, known or unknown.          *)
C25_UrlFollowsFilters ==
  [][ (changes' # changes \/ searches' # searches) =>
        /\ url' = ToQueryString(filters')
        /\ \A i \in 1..Len(url') :
             /\ url'[i][1] \in {"hashtags", "timeFilter", "location", "jobType",
                                 "experienceLevel"}
             /\ url'[i][1] = "hashtags" => Len(filters'.hashtags) > 0
             /\ url'[i][1] # "hashtags" => url'[i][2] = filters'[url'[i][1]] ]_vars

C25_Witness ==
  /\ mounted
  /\ changes = 1 /\ searches = 0
  /\ filters.hashtags = <<>>
  /\ url = << <<"location", "Pune">> >>
  /\ lastWrite = "changed"

(* C26: a GET /jobs call is sent only by a submit (handleSearch), by the   *)
(* follow-up of a discovery, or as the retry of such a request: none is    *)
(* sent at mount, by a filter change, or by a sort or page change.         *)
C26_NoRequestWithoutSubmit ==
  /\ []((searches = 0 /\ acks = 0) => (lastId = 0 /\ Fetching(queries) = {}))
  /\ [][ (\/ lastId' # lastId
          \/ \E K \in DOMAIN queries' :
               /\ queries'[K].phase = "inflight"
               /\ QueryOf(queries, K).phase # "inflight")
        => (SubmitStep \/ \E K \in DOMAIN queries : RetryFire(K)) ]_vars

C26_Witness ==
  /\ changes = 1
  /\ searches = 0 /\ acks = 0
  /\ filters.hashtags = <<>>
  /\ lastId = 0

(* C27: a failed triggerDiscovery call schedules no follow-up search,      *)
(* leaves QueryState, the shown results and the query cache as they are,   *)
(* and leaves isSearching false.                                           *)
C27_FailedScrape ==
  [][ \A i \in 1..MaxScrapes :
        ScrapeFail(i) =>
          /\ timers' = timers
          /\ followUps' = followUps
          /\ lastId' = lastId
          /\ queries' = queries
          /\ QueryState' = QueryState
          /\ searchResults' = searchResults
          /\ isSearching' = FALSE ]_vars

C27_Witness ==
  /\ scrapes = 1 /\ acks = 0
  /\ scrapeCalls = <<>>
  /\ timers = 0 /\ followUps = 0
  /\ ~isSearching
  /\ QueryState = "Success"

(* C28: POST /scrape-jobs is sent only while filters.hashtags is not       *)
(* empty, and its body holds the hashtags, sources and timeFilter of the   *)
(* filters at that moment.                                                 *)
C28_ScrapeHasHashtags ==
  /\ [](\A i \in 1..Len(scrapeCalls) : Len(scrapeCalls[i].hashtags) > 0)
  /\ [][ HandleStartScraping =>
          /\ Len(filters.hashtags) > 0
          /\ scrapeCalls'[Len(scrapeCalls')] =
               [hashtags |-> filters.hashtags, sources |-> filters.sources,
                timeFilter |-> filters.timeFilter] ]_vars

C28_Witness ==
  /\ Len(scrapeCalls) = 1
  /\ scrapeCalls[1].hashtags = << <<"b">> >>
  /\ scrapeCalls[1].sources = <<"linkedin", "naukri", "indeed", "twitter">>
  /\ scrapeCalls[1].timeFilter = "24h"

(* C29: whenever isSearching is true it becomes false again, the request   *)
(* succeeding or failing: the answer or failure of a discovery call, and   *)
(* the settling of a fetch a handleSearch waits for, leave it false.       *)
C29_IsSearchingEnds ==
  /\ isSearching ~> ~isSearching
  /\ [][ \A i \in 1..MaxScrapes : (ScrapeAck(i) \/ ScrapeFail(i)) => ~isSearching' ]_vars
  /\ [][ \A K \in DOMAIN queries :
          (queries[K].waiters > 0 /\ ~QueryOf(queries', K).isFetching) => ~isSearching' ]_vars

C29_Witness ==
  /\ ~isSearching
  /\ searches = 1 /\ scrapes = 1 /\ acks = 0
  /\ scrapeCalls = <<>>
  /\ AllSettled
  /\ CurrentResult.status = "error"

(* C30: currentPage is at least 1; every filter-change action and every    *)
(* submit sets it to 1; and a submit made after a filter change requests   *)
(* offset 0. Every submitted query names a hashtag, so an empty hashtags   *)
(* list after a submit means that a chip was removed since that submit.    *)
C30_PageReset ==
  /\ [](currentPage >= 1)
  /\ [][ (FilterChangeStep \/ \E searchQuery \in Queries : HandleSearch(searchQuery))
          => currentPage' = 1 ]_vars
  /\ [][ \A searchQuery \in Queries :
          ( /\ HandleSearch(searchQuery)
            /\ searches >= 1 /\ filters.hashtags = <<>>
            /\ lastId' # lastId ) =>
            \A K \in DOMAIN queries' :
              queries'[K].fetchId = lastId' => queries'[K].call.offset = 0 ]_vars

====
